---------------------------- MODULE Spec2Model ----------------------------
(***************************************************************************)
(* A model of the graph analysis engine of netmap-app                      *)
(* (src/backend/analysis.py, src/backend/utils.py).                        *)
(*                                                                         *)
(* run_full_analysis is one synchronous pipeline.  It is modelled as a     *)
(* state machine whose program counter pc walks through the sections of    *)
(* the function in the order of the source:                                *)
(*   validation -> duplicates -> unreferenced -> build graph -> metrics    *)
(*   -> structure (detect_chains) -> embedding analysis.                   *)
(* Node ids are one-character strings; their order (used by sorted())      *)
(* is the position in NodeIds.  Floating point quantities that are ratios  *)
(* of integers are kept as reduced fractions <<p, q>>.                     *)
(***************************************************************************)
EXTENDS Integers, Sequences, FiniteSets, TLC

\* ---------------------------------------------------------------- bounds
\* number of distinct ids that may occur in the node mapping / edge list
MaxId == 2
\* length of the input edge list
MaxEdges == 3
\* nodes and edges of the graphs detect_chains is run on
MaxChainNodes == 4

MaxChainEdges == 4
\* embedded nodes, largest vector component, and edges of the original
\* graph in the embedding analysis
MaxEmb == 3

MaxCoord == 2

MaxOrigEdges == 1

\* detect_chains on graphs dense enough for cycles that overlap
MaxCycleNodes == 4

MaxCycleEdges == 6

MaxFaultyNodes == 3

MaxFaultyEdges == 4

\* -------------------------------------------------------------------- ids
NodeIds == <<"A", "B", "C", "D", "E", "F", "G", "H">>

Ids(n) == {NodeIds[i] : i \in 1..n}

\* position of an id in the ascending order of str
Rank(id) == CHOOSE i \in 1..Len(NodeIds) : NodeIds[i] = id

\* ------------------------------------------------------- generic helpers
Range(s) == {s[i] : i \in 1..Len(s)}

Max(a, b) == IF a >= b THEN a ELSE b

\* sequences over S of length at most n
SeqsUpTo(S, n) == UNION {[1..m -> S] : m \in 0..n}

\* sequences over S without repetition (orders of the subsets of S)
InjSeqs(S) == {s \in SeqsUpTo(S, Cardinality(S)) :
                 \A i, j \in 1..Len(s) : i # j => s[i] # s[j]}

RECURSIVE SumOver(_, _)
SumOver(S, f) ==
  IF S = {} THEN 0
  ELSE LET x == CHOOSE y \in S : TRUE IN f[x] + SumOver(S \ {x}, f)

\* sorted(list(S)) for a set of ids
RECURSIVE SortedIds(_)
SortedIds(S) ==
  IF S = {} THEN <<>>
  ELSE LET m == CHOOSE x \in S : \A y \in S : Rank(x) <= Rank(y)
       IN <<m>> \o SortedIds(S \ {m})

\* the first n elements of a sequence (s[:n])
Take(s, n) == IF Len(s) <= n THEN s ELSE SubSeq(s, 1, n)

\* ------------------------------------------------------ exact fractions
RECURSIVE GCD(_, _)
GCD(a, b) == IF b = 0 THEN a ELSE GCD(b, a % b)

\* the number p/q (q > 0) as a reduced fraction
Rat(p, q) == LET g == GCD(p, q) IN IF p = 0 THEN <<0, 1>> ELSE <<p \div g, q \div g>>

Zero == <<0, 1>>

RatAdd(x, y) == Rat(x[1] * y[2] + y[1] * x[2], x[2] * y[2])

RECURSIVE RatSum(_, _)
RatSum(S, f) ==
  IF S = {} THEN Zero
  ELSE LET x == CHOOSE y \in S : TRUE IN RatAdd(f[x], RatSum(S \ {x}, f))

\* ------------------------------------- networkx on the directed graph G
\* A graph is its node order (G.nodes()) and its set of edges <<u, v>>.
in_degree(E, v) == Cardinality({e \in E : e[2] = v})

out_degree(E, v) == Cardinality({e \in E : e[1] = v})

successors(E, v) == {e[2] : e \in {d \in E : d[1] = v}}

\* nx.density of a DiGraph
density(n, m) == IF m = 0 \/ n <= 1 THEN Zero ELSE Rat(m, n * (n - 1))

\* neighbours in the undirected projection (a self-loop makes v its own)
Nbrs(E, v) == {e[2] : e \in {d \in E : d[1] = v}} \cup
              {e[1] : e \in {d \in E : d[2] = v}}

\* nx.clustering of one node: self-loops are ignored
clustering(E, v) ==
  LET vs == Nbrs(E, v) \ {v}
      d  == Cardinality(vs)
      t  == Cardinality({p \in vs \X vs :
                           p[1] # p[2] /\ p[2] \in Nbrs(E, p[1])})
  IN IF t = 0 THEN Zero ELSE Rat(t, d * (d - 1))

average_clustering(N, E) ==
  LET s == RatSum(N, [v \in N |-> clustering(E, v)])
  IN Rat(s[1], s[2] * Cardinality(N))

number_of_selfloops(E) == Cardinality({e \in E : e[1] = e[2]})

\* nx.degree_centrality: degree = in + out, a self-loop counts twice
degree_centrality(N, E) ==
  IF Cardinality(N) <= 1 THEN [v \in N |-> <<1, 1>>]
  ELSE [v \in N |-> Rat(in_degree(E, v) + out_degree(E, v),
                        Cardinality(N) - 1)]

\* nodes within k undirected steps of the set S
RECURSIVE Ball(_, _, _)
Ball(E, S, k) ==
  IF k = 0 THEN S
  ELSE LET B == Ball(E, S, k - 1) IN B \cup UNION {Nbrs(E, w) : w \in B}

\* the nodes reachable from S in the undirected projection
RECURSIVE Reach(_, _)
Reach(E, S) ==
  LET T == S \cup UNION {Nbrs(E, w) : w \in S}
  IN IF T = S THEN S ELSE Reach(E, T)

\* the connected component of v in the undirected projection
Component(N, E, v) == Reach(E, {v})

\* shortest path length between two nodes of one component
Dist(N, E, u, v) ==
  CHOOSE k \in 0..Cardinality(N) :
    /\ v \in Ball(E, {u}, k)
    /\ \A j \in 0..(k - 1) : v \notin Ball(E, {u}, j)

\* nx.connected_components, in the order of the first node of each
RECURSIVE connected_components(_, _, _)
connected_components(nodes, E, seen) ==
  IF nodes = <<>> THEN <<>>
  ELSE IF Head(nodes) \in seen
         THEN connected_components(Tail(nodes), E, seen)
         ELSE LET c == Component(Range(nodes) \cup seen, E, Head(nodes))
              IN <<c>> \o connected_components(Tail(nodes), E, seen \cup c)

\* nx.is_connected: "true" or "false"; on the null graph it raises
\* NetworkXPointlessConcept ("raise")
is_connected(nodes, E) ==
  IF nodes = <<>> THEN "raise"
  ELSE IF Component(Range(nodes), E, Head(nodes)) = Range(nodes)
         THEN "true" ELSE "false"

\* nx.average_shortest_path_length of a connected undirected graph
average_shortest_path_length(N, E) ==
  LET pairs == {p \in N \X N : p[1] # p[2]}
      n     == Cardinality(N)
  IN IF n <= 1 THEN Zero
     ELSE Rat(SumOver(pairs, [p \in pairs |-> Dist(N, E, p[1], p[2])]),
              n * (n - 1))

\* nx.diameter of a connected undirected graph
diameter(N, E) ==
  CHOOSE k \in 0..Cardinality(N) :
    /\ \A u, v \in N : Dist(N, E, u, v) <= k
    /\ \E u, v \in N : Dist(N, E, u, v) = k

\* max(components, key=len): the first of the largest components
RECURSIVE MaxByLen(_)
MaxByLen(cs) ==
  IF Len(cs) = 1 THEN cs[1]
  ELSE LET m == MaxByLen(Tail(cs))
       IN IF Cardinality(cs[1]) >= Cardinality(m) THEN cs[1] ELSE m

\* G.subgraph(S): the edges with both ends in S
Subgraph(E, S) == {e \in E : e[1] \in S /\ e[2] \in S}

\* --------------------------------------------------------------- state
VARIABLES
  pc,                 \* section of run_full_analysis / detect_chains
  nodes_dict,         \* keys of the node mapping, in insertion order
  edges_list,         \* input edge records [source, target]
  idx,                \* position of the running for-loop
  errors,             \* results["validation"]["errors"]
  valid_edges,        \* valid_edges
  referenced_nodes,   \* referenced_nodes
  duplicate_directed, \* results["validation"]["duplicate_directed"]
  unreferenced_nodes, \* results["validation"]["unreferenced_nodes"]
  G_nodes,            \* G.nodes(), in order
  G_edges,            \* G.edges(), pairs <<u, v>>
  original_graph_metrics, \* results["original_graph_metrics"]
  structure,          \* results["structure"]
  visited,            \* detect_chains: visited
  linear_chains,      \* detect_chains: linear_chains
  chain,              \* detect_chains: chain
  current,            \* detect_chains: current
  remaining_nodes,    \* detect_chains: remaining_nodes
  cycles,             \* detect_chains: cycles
  emb_attempted,      \* compute_sentence_embeddings was called
  sent_embs,          \* sent_embs: records [id, emb] in insertion order
  sim,                \* the local variable sim of the sweep
  G_t,                \* edges of the sweep graph of the last threshold
  metrics_data,       \* metrics_data
  metrics_vs_threshold, \* ...["sentence_transformer"]["metrics_vs_threshold"]
  proposed_edges,     \* ...["sentence_transformer"]["proposed_edges"]
  emb_error,          \* results["embedding_analysis"] has an "error"
  heatmap_data,       \* ...["sentence_transformer"]["heatmap_data"]
  comparison_correlation, \* ...["node2vec"]["comparison_correlation"]
  umap_layout,        \* results["embedding_analysis"]["umap_layout"]
  raised              \* an exception left run_full_analysis

inputVars == <<nodes_dict, edges_list>>

validationVars == <<errors, valid_edges, referenced_nodes,
                    duplicate_directed, unreferenced_nodes>>

graphVars == <<G_nodes, G_edges>>

chainVars == <<visited, linear_chains, chain, current, remaining_nodes,
               cycles>>

laterVars == <<heatmap_data, comparison_correlation, umap_layout>>

embVars == <<sent_embs, sim, G_t, metrics_data, metrics_vs_threshold,
             proposed_edges, emb_error, laterVars>>

vars == <<pc, inputVars, idx, validationVars, graphVars,
          original_graph_metrics, structure, chainVars, emb_attempted,
          embVars, raised>>

\* ------------------------------------------------------------ utils.py
\* SequenceMatcher ratio of two one-character strings, in tenths
Ratio10(a, b) == IF a = b THEN 10 ELSE 0

Cutoff10 == 7

MaxMatches == 3

get_close_matches_for_node(undefined_node, defined_nodes) ==
  Take(SelectSeq(defined_nodes,
                 LAMBDA x : Ratio10(undefined_node, x) >= Cutoff10),
       MaxMatches)

\* --------------------------------------------------- 1. validation
defined_node_ids == nodes_dict

InNodesDict(id) == id \in Range(nodes_dict)

\* one issue string (lines 216-218, 220-222): which endpoint, its id, and
\* the "Did you mean" suggestions
Issue(kind, id) ==
  [kind |-> kind, id |-> id,
   matches |-> get_close_matches_for_node(id, defined_node_ids)]

\* a plausible slip: only the source endpoint is checked
edge_errors_source_only(edge) ==
  IF ~InNodesDict(edge.source) THEN << Issue("source", edge.source) >>
                               ELSE << >>

\* the issue strings built for one edge (lines 211-222)
edge_errors(edge) ==
  (IF ~InNodesDict(edge.source) THEN << Issue("source", edge.source) >>
                                ELSE << >>)
  \o
  (IF ~InNodesDict(edge.target) THEN << Issue("target", edge.target) >>
                                ELSE << >>)

\* a plausible slip: the endpoints are recorded before the validity test
referenced_after_any_edge(refs, edge, issues) ==
  refs \cup {edge.source, edge.target}

\* referenced_nodes after one edge (lines 224-229): only a valid edge adds
\* its endpoints
referenced_after(refs, edge, issues) ==
  IF issues # <<>> THEN refs ELSE refs \cup {edge.source, edge.target}

\* one iteration of "for edge in edges_list" (lines 208-229)
ValidateEdge ==
  /\ pc = "validation"
  /\ idx <= Len(edges_list)
  /\ LET edge == edges_list[idx]
         issues == edge_errors(edge)
     IN /\ IF issues # <<>>
             THEN /\ errors' = Append(errors,
                                      [edge |-> edge, issues |-> issues])
                  /\ UNCHANGED valid_edges
             ELSE /\ valid_edges' = Append(valid_edges, edge)
                  /\ UNCHANGED errors
        /\ referenced_nodes' = referenced_after(referenced_nodes, edge, issues)
  /\ idx' = idx + 1
  /\ UNCHANGED <<pc, inputVars, duplicate_directed, unreferenced_nodes,
                 graphVars, original_graph_metrics, structure, chainVars,
                 emb_attempted, embVars,
                 raised>>

\* seen_directed after the loop of lines 233-243: occurrences of each pair
seen_directed(edges, key) ==
  Cardinality({i \in 1..Len(edges) :
                 <<edges[i].source, edges[i].target>> = key})

\* the raw duplicate records of lines 236-242: one per repeated occurrence,
\* carrying the running count
RawDuplicates(edges) ==
  LET n == Len(edges)
      cnt(i) == Cardinality({j \in 1..i :
                  /\ edges[j].source = edges[i].source
                  /\ edges[j].target = edges[i].target})
      hits == SelectSeq([i \in 1..n |-> i], LAMBDA i : cnt(i) > 1)
  IN [k \in 1..Len(hits) |->
        [source |-> edges[hits[k]].source,
         target |-> edges[hits[k]].target,
         count  |-> cnt(hits[k])]]

\* a plausible slip: the first record of each pair keeps its running count
UniqueDupesRunningCount(raw, edges) ==
  SelectSeq(raw, LAMBDA r : r.count = 2)

\* lines 245-254: keep the first record of each pair, with the total count
UniqueDupes(raw, edges) ==
  LET first == SelectSeq([k \in 1..Len(raw) |-> k],
                 LAMBDA k : \A j \in 1..(k - 1) :
                    <<raw[j].source, raw[j].target>> #
                    <<raw[k].source, raw[k].target>>)
  IN [m \in 1..Len(first) |->
        [source |-> raw[first[m]].source,
         target |-> raw[first[m]].target,
         count  |-> seen_directed(edges,
                      <<raw[first[m]].source, raw[first[m]].target>>)]]

\* lines 231-254
CheckDuplicates ==
  /\ pc = "validation"
  /\ idx > Len(edges_list)
  /\ duplicate_directed' = UniqueDupes(RawDuplicates(valid_edges), valid_edges)
  /\ pc' = "unreferenced"
  /\ UNCHANGED <<inputVars, idx, errors, valid_edges, referenced_nodes,
                 unreferenced_nodes, graphVars, original_graph_metrics,
                 structure, chainVars, emb_attempted, embVars,
                 raised>>

\* lines 257-259
CheckUnreferenced ==
  /\ pc = "unreferenced"
  /\ unreferenced_nodes' = SortedIds(Range(defined_node_ids) \ referenced_nodes)
  /\ pc' = "build"
  /\ UNCHANGED <<inputVars, idx, errors, valid_edges, referenced_nodes,
                 duplicate_directed, graphVars, original_graph_metrics,
                 structure, chainVars, emb_attempted, embVars,
                 raised>>

\* ------------------------------- 2. build original graph & basic metrics
\* lines 262-278: the defined nodes in insertion order, the valid edges
\* (a repeated pair is one edge of the DiGraph)
BuildGraph ==
  /\ pc = "build"
  /\ G_nodes' = nodes_dict
  /\ G_edges' = {<<valid_edges[i].source, valid_edges[i].target>> :
                   i \in 1..Len(valid_edges)}
  /\ pc' = "metrics"
  /\ UNCHANGED <<inputVars, idx, validationVars, original_graph_metrics,
                 structure, chainVars, emb_attempted, embVars,
                 raised>>

\* lines 280-299
CoreMetrics(nodes, E) ==
  LET n_nodes == Len(nodes)
      n_edges == Cardinality(E)
  IN [num_nodes      |-> n_nodes,
      num_edges      |-> n_edges,
      avg_in_degree  |-> IF n_nodes > 0 THEN Rat(n_edges, n_nodes) ELSE Zero,
      avg_out_degree |-> IF n_nodes > 0 THEN Rat(n_edges, n_nodes) ELSE Zero,
      density        |-> IF n_nodes > 0 THEN density(n_nodes, n_edges)
                                        ELSE Zero,
      avg_clustering |-> IF n_nodes > 1
                           THEN average_clustering(Range(nodes), E)
                           ELSE Zero,
      num_self_loops |-> number_of_selfloops(E)]

\* lines 301-315.  Betweenness, closeness and eigenvector centrality are
\* numeric results of networkx: the model keeps the key set of each map.
\* eigenvector_centrality_numpy may raise; the error is kept in the field.
Centralities(nodes, E, eig_ok) ==
  LET n_nodes == Len(nodes)
      N       == Range(nodes)
  IN [degree_centrality      |-> IF n_nodes > 0 THEN degree_centrality(N, E)
                                                ELSE <<>>,
      betweenness_centrality |-> [keys |-> IF n_nodes > 1 THEN N ELSE {}],
      closeness_centrality   |-> [keys |-> IF n_nodes > 1 THEN N ELSE {}],
      eigenvector_centrality |-> IF n_nodes > 1
                                   THEN IF eig_ok THEN [keys |-> N]
                                                  ELSE [error |-> TRUE]
                                   ELSE [keys |-> {}]]

\* a plausible slip: the connectivity test without the n_nodes guard
ConnectedTestUnguarded(nodes, E) == is_connected(nodes, E)

\* "n_nodes > 0 and nx.is_connected(G_undirected_conn)" (line 320)
ConnectedTest(nodes, E) ==
  IF Len(nodes) > 0 THEN is_connected(nodes, E) ELSE "false"

\* lines 319-353
Connectivity(nodes, E) ==
  LET n_nodes == Len(nodes)
      N       == Range(nodes)
  IN IF ConnectedTest(nodes, E) = "true"
       THEN [is_connected      |-> TRUE,
             avg_shortest_path |-> IF n_nodes > 1
                                     THEN average_shortest_path_length(N, E)
                                     ELSE Zero,
             diameter          |-> IF n_nodes > 1 THEN diameter(N, E) ELSE 0]
     ELSE IF n_nodes > 0
       THEN LET components == connected_components(nodes, E, {})
                largest_cc_nodes == MaxByLen(components)
                largest_cc == Subgraph(E, largest_cc_nodes)
                big == Cardinality(largest_cc_nodes) > 1
            IN [is_connected   |-> FALSE,
                num_components |-> Len(components),
                largest_component_size |-> Cardinality(largest_cc_nodes),
                largest_component_avg_shortest_path |->
                  IF big THEN average_shortest_path_length(largest_cc_nodes,
                                                           largest_cc)
                         ELSE Zero,
                largest_component_diameter |->
                  IF big THEN diameter(largest_cc_nodes, largest_cc) ELSE 0]
     ELSE [is_connected      |-> TRUE,
           num_components    |-> 0,
           avg_shortest_path |-> Zero,
           diameter          |-> 0]

\* lines 280-353; an exception of the connectivity test is not caught
BasicMetrics ==
  /\ pc = "metrics"
  /\ IF ConnectedTest(G_nodes, G_edges) = "raise"
       THEN /\ raised' = TRUE
            /\ pc' = "raised"
            /\ UNCHANGED original_graph_metrics
       ELSE /\ \E eig_ok \in (IF Len(G_nodes) > 1 THEN BOOLEAN ELSE {TRUE}) :
                 original_graph_metrics' =
                   CoreMetrics(G_nodes, G_edges)
                   @@ Centralities(G_nodes, G_edges, eig_ok)
                   @@ Connectivity(G_nodes, G_edges)
            /\ pc' = "structure"
            /\ UNCHANGED raised
  /\ UNCHANGED <<inputVars, idx, validationVars, graphVars, structure,
                 chainVars, emb_attempted, embVars>>

\* --------------------------------------------------- detect_chains(G)
\* a plausible slip: a chain start is a node without successor or with
\* in-degree other than 1
IsChainStartTypo(E, node) ==
  in_degree(E, node) # 1 \/ out_degree(E, node) # 0

\* line 27: the node starts a chain
IsChainStart(E, node) == in_degree(E, node) # 1 \/ out_degree(E, node) # 1

\* line 41: the successor continues the simple chain
Continues(E, next_node, vis) ==
  /\ in_degree(E, next_node) = 1
  /\ out_degree(E, next_node) = 1
  /\ next_node \notin vis

\* a plausible slip: a node already visited may start a chain of its own
ChainStartVisitedToo ==
  /\ pc = "chains"
  /\ idx <= Len(G_nodes)
  /\ LET node == G_nodes[idx]
     IN IF IsChainStart(G_edges, node)
          THEN /\ chain' = <<node>>
               /\ visited' = visited \cup {node}
               /\ current' = node
               /\ pc' = "follow"
               /\ UNCHANGED idx
          ELSE /\ idx' = idx + 1
               /\ UNCHANGED <<chain, visited, current, pc>>
  /\ UNCHANGED <<inputVars, validationVars, graphVars,
                 original_graph_metrics, structure, linear_chains,
                 remaining_nodes, cycles, emb_attempted, embVars,
                 raised>>

\* one iteration of "for node in list(G.nodes())" up to the inner loop
\* (lines 22-30)
ChainStart ==
  /\ pc = "chains"
  /\ idx <= Len(G_nodes)
  /\ LET node == G_nodes[idx]
     IN IF node \notin visited /\ IsChainStart(G_edges, node)
          THEN /\ chain' = <<node>>
               /\ visited' = visited \cup {node}
               /\ current' = node
               /\ pc' = "follow"
               /\ UNCHANGED idx
          ELSE /\ idx' = idx + 1
               /\ UNCHANGED <<chain, visited, current, pc>>
  /\ UNCHANGED <<inputVars, validationVars, graphVars,
                 original_graph_metrics, structure, linear_chains,
                 remaining_nodes, cycles, emb_attempted, embVars,
                 raised>>

\* a plausible slip: the chain is reported whatever its length
EndChainAnyLength(final) ==
  /\ chain' = final
  /\ linear_chains' = Append(linear_chains, final)
  /\ idx' = idx + 1
  /\ pc' = "chains"

\* lines 52-54, then the next node of the outer loop
EndChain(final) ==
  /\ chain' = final
  /\ linear_chains' = IF Len(final) > 1 THEN Append(linear_chains, final)
                                        ELSE linear_chains
  /\ idx' = idx + 1
  /\ pc' = "chains"

\* one test of "while G.out_degree(current) == 1" and its body
\* (lines 32-50); leaving the loop closes the chain (lines 52-54)
ChainFollow ==
  /\ pc = "follow"
  /\ IF out_degree(G_edges, current) = 1
       THEN LET next_node == CHOOSE s \in successors(G_edges, current) : TRUE
            IN IF next_node = current
                 THEN /\ EndChain(chain)
                      /\ UNCHANGED <<visited, current>>
               ELSE IF Continues(G_edges, next_node, visited)
                 THEN /\ chain' = Append(chain, next_node)
                      /\ visited' = visited \cup {next_node}
                      /\ current' = next_node
                      /\ UNCHANGED <<linear_chains, idx, pc>>
               ELSE IF next_node \notin visited
                 THEN /\ EndChain(Append(chain, next_node))
                      /\ visited' = visited \cup {next_node}
                      /\ UNCHANGED current
               ELSE /\ EndChain(chain)
                    /\ UNCHANGED <<visited, current>>
       ELSE /\ EndChain(chain)
            /\ UNCHANGED <<visited, current>>
  /\ UNCHANGED <<inputVars, validationVars, graphVars,
                 original_graph_metrics, structure, remaining_nodes, cycles,
                 emb_attempted, embVars,
                 raised>>

\* lines 59-60
CycleInit ==
  /\ pc = "chains"
  /\ idx > Len(G_nodes)
  /\ cycles' = <<>>
  /\ remaining_nodes' = Range(G_nodes) \ visited
  /\ pc' = "cycles"
  /\ UNCHANGED <<inputVars, idx, validationVars, graphVars,
                 original_graph_metrics, structure, visited, linear_chains,
                 chain, current, emb_attempted, embVars,
                 raised>>

\* simple paths of k nodes, as node sequences
RECURSIVE SimplePaths(_, _, _)
SimplePaths(N, E, k) ==
  IF k = 1 THEN {<<v>> : v \in N}
  ELSE UNION {{Append(p, w) : w \in successors(E, p[Len(p)]) \ Range(p)} :
                p \in SimplePaths(N, E, k - 1)}

\* every rotation of every simple cycle of G (a self-loop is a cycle)
CycleLists(N, E) ==
  {p \in UNION {SimplePaths(N, E, k) : k \in 1..Cardinality(N)} :
     <<p[Len(p)], p[1]>> \in E}

\* the rotation of a cycle list that starts at its smallest id
Canon(c) ==
  LET n == Len(c)
      r == CHOOSE i \in 1..n : \A j \in 1..n : Rank(c[i]) <= Rank(c[j])
  IN [i \in 1..n |-> c[((r + i - 2) % n) + 1]]

\* what [c for c in nx.simple_cycles(G) if node in c] can be: each simple
\* cycle through node once, in some order, each in some rotation
NodeCycleLists(N, E, node) ==
  LET R == {c \in CycleLists(N, E) : node \in Range(c)}
      classes == {Canon(c) : c \in R}
      k == Cardinality(classes)
  IN {cs \in [1..k -> R] : {Canon(cs[i]) : i \in 1..k} = classes}

\* a plausible slip: the nodes of a new cycle are not added to visited
RECURSIVE AddCyclesUnmarked(_, _)
AddCyclesUnmarked(node_cycles, acc) ==
  IF node_cycles = <<>> THEN acc
  ELSE LET cycle == Head(node_cycles)
           is_new_cycle == \A i \in 1..Len(acc.cycles) :
                              Range(cycle) # Range(acc.cycles[i])
       IN AddCyclesUnmarked(Tail(node_cycles),
            IF is_new_cycle
              THEN [cycles    |-> Append(acc.cycles, cycle),
                    visited   |-> acc.visited,
                    remaining |-> acc.remaining \ Range(cycle)]
              ELSE acc)

\* lines 70-81: append the cycles whose node set is new, mark their nodes
RECURSIVE AddCycles(_, _)
AddCycles(node_cycles, acc) ==
  IF node_cycles = <<>> THEN acc
  ELSE LET cycle == Head(node_cycles)
           is_new_cycle == \A i \in 1..Len(acc.cycles) :
                              Range(cycle) # Range(acc.cycles[i])
       IN AddCycles(Tail(node_cycles),
            IF is_new_cycle
              THEN [cycles    |-> Append(acc.cycles, cycle),
                    visited   |-> acc.visited \cup Range(cycle),
                    remaining |-> acc.remaining \ Range(cycle)]
              ELSE acc)

\* one iteration of "while remaining_nodes" (lines 61-81)
CyclePop ==
  /\ pc = "cycles"
  /\ remaining_nodes # {}
  /\ \E node \in remaining_nodes :
       IF node \in visited
         THEN /\ remaining_nodes' = remaining_nodes \ {node}
              /\ UNCHANGED <<cycles, visited>>
         ELSE \E node_cycles \in NodeCycleLists(Range(G_nodes), G_edges, node) :
                LET acc == AddCycles(node_cycles,
                             [cycles    |-> cycles,
                              visited   |-> visited,
                              remaining |-> remaining_nodes \ {node}])
                IN /\ cycles' = acc.cycles
                   /\ visited' = acc.visited
                   /\ remaining_nodes' = acc.remaining
  /\ UNCHANGED <<pc, inputVars, idx, validationVars, graphVars,
                 original_graph_metrics, structure, linear_chains, chain,
                 current, emb_attempted, embVars,
                 raised>>

\* a plausible slip: the node whose cycle search raised stays pending
CycleSearchRaisesRetry ==
  /\ pc = "cycles"
  /\ remaining_nodes # {}
  /\ \E node \in remaining_nodes :
       /\ node \notin visited
       /\ visited' = visited \cup {node}
       /\ UNCHANGED <<cycles, remaining_nodes>>
  /\ UNCHANGED <<pc, inputVars, idx, validationVars, graphVars,
                 original_graph_metrics, structure, linear_chains, chain,
                 current, emb_attempted, embVars, raised>>

\* one iteration of "while remaining_nodes" in which the cycle search
\* raises (lines 61-63, 69, 83-85): the node has been popped, the except
\* clause adds it to visited
CycleSearchRaises ==
  /\ pc = "cycles"
  /\ remaining_nodes # {}
  /\ \E node \in remaining_nodes :
       /\ node \notin visited
       /\ remaining_nodes' = remaining_nodes \ {node}
       /\ visited' = visited \cup {node}
       /\ UNCHANGED cycles
  /\ UNCHANGED <<pc, inputVars, idx, validationVars, graphVars,
                 original_graph_metrics, structure, linear_chains, chain,
                 current, emb_attempted, embVars, raised>>

\* max(len(c) for c in cs) if cs else 0
RECURSIVE Longest(_)
Longest(cs) == IF cs = <<>> THEN 0 ELSE Max(Len(Head(cs)), Longest(Tail(cs)))

\* line 89, and the caller's lines 359-363
DetectChainsReturn ==
  /\ pc = "cycles"
  /\ remaining_nodes = {}
  /\ structure' = [chains |-> linear_chains,
                   cycles |-> cycles,
                   longest_chain_length |-> Longest(linear_chains),
                   longest_cycle_length |-> Longest(cycles)]
  /\ pc' = "embedding"
  /\ UNCHANGED <<inputVars, idx, validationVars, graphVars,
                 original_graph_metrics, chainVars, emb_attempted, embVars,
                 raised>>

\* ------------------------------------------------ 3. structure detection
\* lines 357-369: detect_chains is entered only for a non-empty graph
StructureDetection ==
  /\ pc = "structure"
  /\ IF Len(G_nodes) > 0
       THEN /\ pc' = "chains"
            /\ idx' = 1
            /\ visited' = {}
            /\ linear_chains' = <<>>
            /\ UNCHANGED structure
       ELSE /\ structure' = structure @@ [longest_chain_length |-> 0,
                                          longest_cycle_length |-> 0]
            /\ pc' = "embedding"
            /\ UNCHANGED <<idx, visited, linear_chains>>
  /\ UNCHANGED <<inputVars, validationVars, graphVars,
                 original_graph_metrics, chain, current, remaining_nodes,
                 cycles, emb_attempted, embVars,
                 raised>>

\* ------------------------------------------------- 4. embedding analysis
\* line 373: the embedding producers are called only for a non-empty graph
EmbeddingAnalysis ==
  /\ pc = "embedding"
  /\ IF Len(G_nodes) > 0
       THEN /\ emb_attempted' = TRUE
            /\ pc' = "sentence_embeddings"
       ELSE /\ pc' = "done"
            /\ UNCHANGED emb_attempted
  /\ UNCHANGED <<inputVars, idx, validationVars, graphVars,
                 original_graph_metrics, structure, chainVars, embVars,
                 raised>>

\* ------------------------------------------- similarity graph and sweep
\* An embedding vector is a tuple of integers; the vectors of the model
\* have one component, so that every distance is an integer and every
\* similarity an exact fraction.
np_any(v) == \E i \in 1..Len(v) : v[i] # 0

\* np.linalg.norm(u - v) for vectors of one component
norm_diff(u, v) == IF u[1] >= v[1] THEN u[1] - v[1] ELSE v[1] - u[1]

\* line 14-15
similarity_from_distance(dist) == IF dist >= 0 THEN Rat(1, 1 + dist) ELSE Zero

\* x >= y for fractions
RatGeq(x, y) == x[1] * y[2] >= y[1] * x[2]

\* np.linspace(0, 1, 21)
NumThresholds == 21

thresholds == [k \in 1..NumThresholds |-> Rat(k - 1, NumThresholds - 1)]

\* fixed_threshold = 0.65 (line 426)
fixed_threshold == <<13, 20>>

\* the value of a local variable that was never assigned
Unbound == <<>>

None == [none |-> TRUE]

\* the index pairs of "for i in range(n): for j in range(i + 1, n)"
RECURSIVE PairsFrom(_, _, _)
PairsFrom(i, j, n) ==
  IF i >= n THEN <<>>
  ELSE IF j > n THEN PairsFrom(i + 1, i + 2, n)
  ELSE <<<<i, j>>>> \o PairsFrom(i, j + 1, n)

Pairs(n) == PairsFrom(1, 2, n)

\* construct_embedding_graph(embeddings, threshold), lines 155-189: the
\* edges of G_emb in insertion order, each with its similarity
RECURSIVE EmbeddingEdges(_, _, _)
EmbeddingEdges(embeddings, pairs, threshold) ==
  IF pairs = <<>> THEN <<>>
  ELSE LET n_i == embeddings[Head(pairs)[1]]
           n_j == embeddings[Head(pairs)[2]]
           s   == similarity_from_distance(norm_diff(n_i.emb, n_j.emb))
           rest == EmbeddingEdges(embeddings, Tail(pairs), threshold)
       IN IF np_any(n_i.emb) /\ np_any(n_j.emb) /\ RatGeq(s, threshold)
            THEN <<[u |-> n_i.id, v |-> n_j.id, similarity |-> s]>> \o rest
            ELSE rest

construct_embedding_graph(embeddings, threshold) ==
  EmbeddingEdges(embeddings, Pairs(Len(embeddings)), threshold)

\* a plausible slip: the similarity test of the sweep reversed
SweepTestReversed(s, t) == RatGeq(t, s)

\* "if sim >= t" (line 396)
SweepTest(s, t) == RatGeq(s, t)

\* the two inner loops of the sweep for one threshold t (lines 388-397).
\* sim is assigned only for a pair of two non-zero vectors (lines 393-395)
\* and tested for every pair (line 396): for a pair with a zero vector the
\* test reads the value left by the last pair that assigned it, and raises
\* UnboundLocalError when no pair has assigned it yet.
RECURSIVE SweepPairs(_, _, _, _, _)
SweepPairs(embs, pairs, s0, t, edges) ==
  IF pairs = <<>> THEN [edges |-> edges, sim |-> s0, raised |-> FALSE]
  ELSE LET e_i == embs[Head(pairs)[1]]
           e_j == embs[Head(pairs)[2]]
           s1  == IF np_any(e_i.emb) /\ np_any(e_j.emb)
                    THEN similarity_from_distance(norm_diff(e_i.emb, e_j.emb))
                    ELSE s0
       IN IF s1 = Unbound
            THEN [edges |-> edges, sim |-> s0, raised |-> TRUE]
            ELSE SweepPairs(embs, Tail(pairs), s1, t,
                   IF SweepTest(s1, t) THEN edges \cup {<<e_i.id, e_j.id>>}
                                       ELSE edges)

\* nx.density of an undirected graph
density_undirected(n, m) ==
  IF m = 0 \/ n <= 1 THEN Zero ELSE Rat(2 * m, n * (n - 1))

\* the four values appended for one threshold (lines 403-420)
SweepMetrics(nodes, E) ==
  LET n_t == Len(nodes)
      e_t == Cardinality(E)
  IN IF n_t > 1
       THEN [density        |-> density_undirected(n_t, e_t),
             clustering     |-> average_clustering(Range(nodes), E),
             avg_degree     |-> Rat(2 * e_t, n_t),
             num_components |-> Len(connected_components(nodes, E, {}))]
       ELSE [density |-> Zero, clustering |-> Zero, avg_degree |-> Zero,
             num_components |-> n_t]

all_emb_nodes == [i \in 1..Len(sent_embs) |-> sent_embs[i].id]

\* one iteration of "for t in thresholds" (lines 385-420); an exception
\* is caught at line 563 and ends the embedding analysis
SweepStep ==
  /\ pc = "sweep"
  /\ idx <= NumThresholds
  /\ \E r \in {SweepPairs(sent_embs, Pairs(Len(sent_embs)), sim,
                           thresholds[idx], {})} :
       IF r.raised
         THEN /\ emb_error' = TRUE
              /\ pc' = "done"
              /\ UNCHANGED <<idx, sim, G_t, metrics_data>>
         ELSE /\ sim' = r.sim
              /\ G_t' = r.edges
              /\ \E m \in {SweepMetrics(all_emb_nodes, r.edges)} :
                   metrics_data' =
                     [metrics_data EXCEPT
                        !.density = Append(@, m.density),
                        !.clustering = Append(@, m.clustering),
                        !.avg_degree = Append(@, m.avg_degree),
                        !.num_components = Append(@, m.num_components)]
              /\ idx' = idx + 1
              /\ UNCHANGED <<pc, emb_error>>
  /\ UNCHANGED <<inputVars, validationVars, graphVars,
                 original_graph_metrics, structure, chainVars, emb_attempted,
                 sent_embs, metrics_vs_threshold, proposed_edges, laterVars,
                 raised>>

\* line 422
SweepEnd ==
  /\ pc = "sweep"
  /\ idx > NumThresholds
  /\ metrics_vs_threshold' = metrics_data
  /\ pc' = "proposed"
  /\ UNCHANGED <<inputVars, idx, validationVars, graphVars,
                 original_graph_metrics, structure, chainVars, emb_attempted,
                 sent_embs, sim, G_t, metrics_data, proposed_edges,
                 emb_error, laterVars, raised>>

\* orig_undirected.has_edge(u, v)
has_edge_undirected(E, u, v) == <<u, v>> \in E \/ <<v, u>> \in E

\* lines 429-435
Proposed(emb_edges, E) ==
  LET keep == SelectSeq(emb_edges,
                        LAMBDA e : ~has_edge_undirected(E, e.u, e.v))
  IN [k \in 1..Len(keep) |-> [source     |-> keep[k].u,
                              target     |-> keep[k].v,
                              similarity |-> keep[k].similarity]]

\* lines 425-436
ProposedEdges ==
  /\ pc = "proposed"
  /\ proposed_edges' =
       Proposed(construct_embedding_graph(sent_embs, fixed_threshold), G_edges)
  /\ pc' = "heatmap"
  /\ UNCHANGED <<inputVars, idx, validationVars, graphVars,
                 original_graph_metrics, structure, chainVars, emb_attempted,
                 sent_embs, sim, G_t, metrics_data, metrics_vs_threshold,
                 emb_error, laterVars, raised>>

\* ------------------------------------------------------------- heatmap
\* np.inf: distances are non-negative integers, and the infinite distance
\* is written as the one negative value
Inf == -1

\* the exception a step raised instead of returning a value
ValueError == [raises |-> "ValueError"]

\* the except clauses of lines 559-568: the error is recorded in
\* results["embedding_analysis"]["error"] and the report is returned
CaughtBySection ==
  /\ emb_error' = TRUE
  /\ pc' = "done"

\* a handler that lets the exception leave run_full_analysis
ProducerRaisesUncaught ==
  /\ pc = "sentence_embeddings"
  /\ raised' = TRUE
  /\ pc' = "raised"
  /\ UNCHANGED <<inputVars, idx, validationVars, graphVars,
                 original_graph_metrics, structure, chainVars, emb_attempted,
                 embVars>>

\* compute_sentence_embeddings raises (line 376): lines 559-568
ProducerRaises ==
  /\ pc = "sentence_embeddings"
  /\ CaughtBySection
  /\ UNCHANGED <<inputVars, idx, validationVars, graphVars,
                 original_graph_metrics, structure, chainVars, emb_attempted,
                 sent_embs, sim, G_t, metrics_data, metrics_vs_threshold,
                 proposed_edges, laterVars, raised>>

\* dist_matrix of lines 441-452
dist_matrix(embs) ==
  [i \in 1..Len(embs) |->
     [j \in 1..Len(embs) |->
        IF np_any(embs[i].emb) /\ np_any(embs[j].emb)
          THEN norm_diff(embs[i].emb, embs[j].emb)
          ELSE Inf]]

\* the entries of a square matrix
Entries(M) == {M[i][j] : i, j \in 1..Len(M)}

\* the largest element of a non-empty set of numbers
MaxOf(S) == CHOOSE x \in S : \A y \in S : y <= x

\* lines 456-459: every infinite entry becomes ten times the largest
\* finite entry (1.0 when no entry is finite)
replace_inf(M) ==
  IF Inf \in Entries(M)
    THEN LET finite == Entries(M) \ {Inf}
             max_finite_dist == IF finite # {} THEN MaxOf(finite) ELSE 1
         IN [i \in 1..Len(M) |->
               [j \in 1..Len(M) |->
                  IF M[i][j] = Inf THEN max_finite_dist * 10 ELSE M[i][j]]]
    ELSE M

\* similarity_from_distance(dist_matrix), line 461 with lines 14-15: the
\* condition "dist is not None and dist >= 0" is an array of booleans, and
\* the truth value of an array of more than one element raises ValueError
similarity_from_distance_matrix(M) ==
  IF Len(M) * Len(M) > 1
    THEN ValueError
    ELSE [i \in 1..Len(M) |->
            [j \in 1..Len(M) |-> similarity_from_distance(M[i][j])]]

\* np.fill_diagonal(sim_matrix, 1.0), line 462
fill_diagonal(M) ==
  [i \in 1..Len(M) |->
     [j \in 1..Len(M) |-> IF i = j THEN Rat(1, 1) ELSE M[i][j]]]

\* leaves_list(linkage(...)), lines 465-467: some order of the indices
leaves_list(n) == {p \in InjSeqs(1..n) : Len(p) = n}

\* node_labels of compute_sentence_embeddings (lines 102-104) for a node
\* record without a "label": str(node_id)
node_labels(id) == id

\* lines 468-477
HeatmapPayload(embs, sim_matrix, ordered_indices) ==
  [matrix |-> [k \in 1..Len(ordered_indices) |->
                 [l \in 1..Len(ordered_indices) |->
                    sim_matrix[ordered_indices[k]][ordered_indices[l]]]],
   ids    |-> [k \in 1..Len(ordered_indices) |-> embs[ordered_indices[k]].id],
   labels |-> [k \in 1..Len(ordered_indices) |->
                 node_labels(embs[ordered_indices[k]].id)]]

\* lines 440-483.  Lines 441-462 stand before the try of line 464, so what
\* they raise is caught by the except of line 563.
Heatmap ==
  /\ pc = "heatmap"
  /\ IF Len(sent_embs) > 1
       THEN LET dist == replace_inf(dist_matrix(sent_embs))
                sims == similarity_from_distance_matrix(dist)
            IN IF sims = ValueError
                 THEN /\ CaughtBySection
                      /\ UNCHANGED heatmap_data
                 ELSE /\ \E ordered_indices \in leaves_list(Len(sent_embs)) :
                           heatmap_data' =
                             HeatmapPayload(sent_embs, fill_diagonal(sims),
                                            ordered_indices)
                      /\ pc' = "node2vec"
                      /\ UNCHANGED emb_error
       ELSE /\ pc' = "node2vec"
            /\ UNCHANGED <<heatmap_data, emb_error>>
  /\ UNCHANGED <<inputVars, idx, validationVars, graphVars,
                 original_graph_metrics, structure, chainVars, emb_attempted,
                 sent_embs, sim, G_t, metrics_data, metrics_vs_threshold,
                 proposed_edges, comparison_correlation, umap_layout, raised>>

\* ------------------------------------------------ node2vec comparison
\* compute_node2vec_embeddings(G), lines 111-150, for a non-empty graph
\* whose node ids are strings: line 138 indexes G.nodes() by a list
\* position, which is no node id, so the except of line 147 returns the
\* all-zero vector for every node of G
compute_node2vec_embeddings(nodes) ==
  [i \in 1..Len(nodes) |-> [id |-> nodes[i], emb |-> <<0>>]]

\* embeddings.get(id)
EmbOf(embs, id) == (CHOOSE i \in 1..Len(embs) : embs[i].id = id)

\* lines 505-511 for one embedding space: the distance of a pair, np.inf
\* when one of its vectors is all-zero
PairDist(embs, a, b) ==
  LET e_a == embs[EmbOf(embs, a)].emb
      e_b == embs[EmbOf(embs, b)].emb
  IN IF np_any(e_a) /\ np_any(e_b) THEN norm_diff(e_a, e_b) ELSE Inf

\* sum of the elements of a sequence of integers
RECURSIVE SeqSum(_)
SeqSum(q) == IF q = <<>> THEN 0 ELSE Head(q) + SeqSum(Tail(q))

\* m^2 times the variance of a sequence of m integers: np.std(x) > 1e-6
\* exactly when it is positive
Var(x) == Len(x) * SeqSum([k \in 1..Len(x) |-> x[k] * x[k]])
            - SeqSum(x) * SeqSum(x)

\* np.corrcoef(x, y)[0, 1] as its sign and its square
corrcoef(x, y) ==
  LET cov == Len(x) * SeqSum([k \in 1..Len(x) |-> x[k] * y[k]])
               - SeqSum(x) * SeqSum(y)
  IN [sign   |-> IF cov > 0 THEN 1 ELSE IF cov < 0 THEN -1 ELSE 0,
      square |-> Rat(cov * cov, Var(x) * Var(y))]

\* the string "N/A (<reason>)"
NotApplicable(reason) == [na |-> reason]

\* lines 491-530.  The branch "N/A (NaN)" of line 522 is not taken: with
\* both deviations positive the coefficient is a number.
Comparison(sent, n2v) ==
  LET common_nodes ==
        SortedIds({sent[i].id : i \in 1..Len(sent)}
                    \cap {n2v[i].id : i \in 1..Len(n2v)})
      pairs == Pairs(Len(common_nodes))
      sent_dists == [k \in 1..Len(pairs) |->
                       PairDist(sent, common_nodes[pairs[k][1]],
                                common_nodes[pairs[k][2]])]
      n2v_dists == [k \in 1..Len(pairs) |->
                      PairDist(n2v, common_nodes[pairs[k][1]],
                               common_nodes[pairs[k][2]])]
      valid_indices == SelectSeq([k \in 1..Len(pairs) |-> k],
                                 LAMBDA k : /\ sent_dists[k] # Inf
                                            /\ n2v_dists[k] # Inf)
      sent_dists_f == [k \in 1..Len(valid_indices) |->
                         sent_dists[valid_indices[k]]]
      n2v_dists_f == [k \in 1..Len(valid_indices) |->
                        n2v_dists[valid_indices[k]]]
  IN IF Len(common_nodes) > 1
       THEN IF Len(valid_indices) > 1
              THEN IF Var(sent_dists_f) > 0 /\ Var(n2v_dists_f) > 0
                     THEN corrcoef(sent_dists_f, n2v_dists_f)
                     ELSE NotApplicable("Zero Variance")
              ELSE NotApplicable("Not Enough Data")
       ELSE NotApplicable("Insufficient Overlap")

\* lines 486-530
Node2Vec ==
  /\ pc = "node2vec"
  /\ IF sent_embs # <<>>
       THEN comparison_correlation' =
              Comparison(sent_embs, compute_node2vec_embeddings(G_nodes))
       ELSE UNCHANGED comparison_correlation
  /\ pc' = "umap"
  /\ UNCHANGED <<inputVars, idx, validationVars, graphVars,
                 original_graph_metrics, structure, chainVars, emb_attempted,
                 sent_embs, sim, G_t, metrics_data, metrics_vs_threshold,
                 proposed_edges, emb_error, heatmap_data, umap_layout,
                 raised>>

\* -------------------------------------------------------- UMAP layout
\* nodes_for_umap, line 536
nodes_for_umap ==
  SelectSeq(all_emb_nodes,
            LAMBDA n : np_any(sent_embs[EmbOf(sent_embs, n)].emb))

\* lines 533-556; reducer.fit_transform returns coordinates or raises, and
\* what it raises is caught at lines 549-554
UMAPLayout ==
  /\ pc = "umap"
  /\ IF Len(all_emb_nodes) >= 3
       THEN IF Len(nodes_for_umap) >= 3
              THEN \/ umap_layout' = [keys |-> Range(nodes_for_umap)]
                   \/ umap_layout' = [error |-> "UMAP failed"]
              ELSE umap_layout' =
                     [error |-> "Not enough valid embeddings for UMAP (<3)."]
       ELSE IF Len(G_nodes) > 0
              THEN umap_layout' = [error |-> "Not enough nodes for UMAP (<3)."]
              ELSE UNCHANGED umap_layout
  /\ pc' = "done"
  /\ UNCHANGED <<inputVars, idx, validationVars, graphVars,
                 original_graph_metrics, structure, chainVars, emb_attempted,
                 sent_embs, sim, G_t, metrics_data, metrics_vs_threshold,
                 proposed_edges, emb_error, heatmap_data,
                 comparison_correlation, raised>>

\* ------------------------------------------------------- specification
EdgeRecords(S) == [source : S, target : S]

\* the state of detect_chains and of the later sections before they run
Untouched ==
  /\ G_nodes = <<>>
  /\ G_edges = {}
  /\ original_graph_metrics = <<>>
  /\ structure = [chains |-> <<>>, cycles |-> <<>>]
  /\ visited = {}
  /\ linear_chains = <<>>
  /\ chain = <<>>
  /\ current = ""
  /\ remaining_nodes = {}
  /\ cycles = <<>>
  /\ emb_attempted = FALSE
  /\ sent_embs = <<>>
  /\ sim = Unbound
  /\ G_t = {}
  /\ metrics_data = <<>>
  /\ metrics_vs_threshold = None
  /\ proposed_edges = <<>>
  /\ emb_error = FALSE
  /\ heatmap_data = None
  /\ comparison_correlation = None
  /\ umap_layout = None
  /\ raised = FALSE

\* run_full_analysis(nodes_dict, edges_list) on every input within the
\* bounds, up to the call of the embedding producers
Init ==
  /\ pc = "validation"
  /\ nodes_dict \in InjSeqs(Ids(MaxId))
  /\ edges_list \in SeqsUpTo(EdgeRecords(Ids(MaxId)), MaxEdges)
  /\ idx = 1
  /\ errors = <<>>
  /\ valid_edges = <<>>
  /\ referenced_nodes = {}
  /\ duplicate_directed = <<>>
  /\ unreferenced_nodes = <<>>
  /\ Untouched

NextChains ==
  \/ ChainStart
  \/ ChainFollow
  \/ CycleInit
  \/ CyclePop
  \/ DetectChainsReturn

Next ==
  \/ ValidateEdge
  \/ CheckDuplicates
  \/ CheckUnreferenced
  \/ BuildGraph
  \/ BasicMetrics
  \/ StructureDetection
  \/ NextChains
  \/ EmbeddingAnalysis
  \/ ProducerRaises

Spec == Init /\ [][Next]_vars

\* the i-th pair of ids among the first n, in row-major order (i from 0)
PairAt(n, i) == <<NodeIds[(i \div n) + 1], NodeIds[(i % n) + 1]>>

\* the sets of at most k pairs of the first n ids whose positions are lo or
\* later: every graph once
RECURSIVE GraphsFrom(_, _, _)
GraphsFrom(n, lo, k) ==
  IF k = 0 \/ lo >= n * n THEN {{}}
  ELSE {{}} \cup UNION {{{PairAt(n, i)} \cup g : g \in GraphsFrom(n, i + 1, k - 1)} :
                        i \in lo..(n * n - 1)}

\* the edge sets of the directed graphs on the first n ids with at most k
\* edges
SubsetsUpTo(n, k) == GraphsFrom(n, 0, k)

\* the first n ids, in ascending order
FirstIds(n) == [i \in 1..n |-> NodeIds[i]]

\* detect_chains(G) on every directed graph within the bounds (self-loops
\* allowed).  G enumerates its nodes as A, B, C, ...; every enumeration
\* order of a given graph is one of its labellings.
InitChains ==
  /\ pc = "chains"
  /\ \E n \in 1..MaxChainNodes :
       /\ G_nodes = FirstIds(n)
       /\ G_edges \in SubsetsUpTo(n, MaxChainEdges)
  /\ nodes_dict = G_nodes
  /\ edges_list = <<>>
  /\ idx = 1
  /\ errors = <<>>
  /\ valid_edges = <<>>
  /\ referenced_nodes = {}
  /\ duplicate_directed = <<>>
  /\ unreferenced_nodes = <<>>
  /\ original_graph_metrics = <<>>
  /\ structure = [chains |-> <<>>, cycles |-> <<>>]
  /\ visited = {}
  /\ linear_chains = <<>>
  /\ chain = <<>>
  /\ current = ""
  /\ remaining_nodes = {}
  /\ cycles = <<>>
  /\ emb_attempted = FALSE
  /\ sent_embs = <<>>
  /\ sim = Unbound
  /\ G_t = {}
  /\ metrics_data = <<>>
  /\ metrics_vs_threshold = None
  /\ proposed_edges = <<>>
  /\ emb_error = FALSE
  /\ heatmap_data = None
  /\ comparison_correlation = None
  /\ umap_layout = None
  /\ raised = FALSE

SpecChains == InitChains /\ [][NextChains]_vars

\* detect_chains(G) on the directed graphs of up to MaxFaultyNodes nodes and
\* MaxFaultyEdges edges, for the runs in which the cycle search may raise
InitFaulty ==
  /\ pc = "chains"
  /\ \E n \in 1..MaxFaultyNodes :
       /\ G_nodes = FirstIds(n)
       /\ G_edges \in SubsetsUpTo(n, MaxFaultyEdges)
  /\ nodes_dict = G_nodes
  /\ edges_list = <<>>
  /\ idx = 1
  /\ errors = <<>>
  /\ valid_edges = <<>>
  /\ referenced_nodes = {}
  /\ duplicate_directed = <<>>
  /\ unreferenced_nodes = <<>>
  /\ original_graph_metrics = <<>>
  /\ structure = [chains |-> <<>>, cycles |-> <<>>]
  /\ visited = {}
  /\ linear_chains = <<>>
  /\ chain = <<>>
  /\ current = ""
  /\ remaining_nodes = {}
  /\ cycles = <<>>
  /\ emb_attempted = FALSE
  /\ sent_embs = <<>>
  /\ sim = Unbound
  /\ G_t = {}
  /\ metrics_data = <<>>
  /\ metrics_vs_threshold = None
  /\ proposed_edges = <<>>
  /\ emb_error = FALSE
  /\ heatmap_data = None
  /\ comparison_correlation = None
  /\ umap_layout = None
  /\ raised = FALSE

\* detect_chains(G) with a cycle search that may raise, every loop
\* iteration eventually taken
NextChainsFaulty ==
  \/ NextChains
  \/ CycleSearchRaises

SpecChainsFaulty ==
  InitFaulty /\ [][NextChainsFaulty]_vars /\ WF_vars(NextChainsFaulty)

\* detect_chains(G) on the directed graphs of up to MaxCycleNodes nodes and
\* MaxCycleEdges edges
InitCycles ==
  /\ pc = "chains"
  /\ \E n \in 1..MaxCycleNodes :
       /\ G_nodes = FirstIds(n)
       /\ G_edges \in SubsetsUpTo(n, MaxCycleEdges)
  /\ nodes_dict = G_nodes
  /\ edges_list = <<>>
  /\ idx = 1
  /\ errors = <<>>
  /\ valid_edges = <<>>
  /\ referenced_nodes = {}
  /\ duplicate_directed = <<>>
  /\ unreferenced_nodes = <<>>
  /\ original_graph_metrics = <<>>
  /\ structure = [chains |-> <<>>, cycles |-> <<>>]
  /\ visited = {}
  /\ linear_chains = <<>>
  /\ chain = <<>>
  /\ current = ""
  /\ remaining_nodes = {}
  /\ cycles = <<>>
  /\ emb_attempted = FALSE
  /\ sent_embs = <<>>
  /\ sim = Unbound
  /\ G_t = {}
  /\ metrics_data = <<>>
  /\ metrics_vs_threshold = None
  /\ proposed_edges = <<>>
  /\ emb_error = FALSE
  /\ heatmap_data = None
  /\ comparison_correlation = None
  /\ umap_layout = None
  /\ raised = FALSE

SpecCycles == InitCycles /\ [][NextChains]_vars

\* embedding vectors of the model
Vectors == {<<x>> : x \in 0..MaxCoord}

\* the embedding analysis of run_full_analysis from the return of
\* compute_sentence_embeddings (line 376) on: every node has a well-formed
\* attribute record and so an embedding; G is any graph on these nodes
\* within the bounds.  The earlier sections are not read by this one.
InitEmbedding ==
  /\ pc = "sweep"
  /\ \E n \in 1..MaxEmb :
       /\ G_nodes = FirstIds(n)
       /\ G_edges \in SubsetsUpTo(n, MaxOrigEdges)
       /\ \E vs \in [1..n -> Vectors] :
            sent_embs = [i \in 1..n |-> [id |-> NodeIds[i], emb |-> vs[i]]]
  /\ nodes_dict = G_nodes
  /\ edges_list = <<>>
  /\ idx = 1
  /\ errors = <<>>
  /\ valid_edges = <<>>
  /\ referenced_nodes = {}
  /\ duplicate_directed = <<>>
  /\ unreferenced_nodes = <<>>
  /\ original_graph_metrics = <<>>
  /\ structure = [chains |-> <<>>, cycles |-> <<>>]
  /\ visited = {}
  /\ linear_chains = <<>>
  /\ chain = <<>>
  /\ current = ""
  /\ remaining_nodes = {}
  /\ cycles = <<>>
  /\ emb_attempted = TRUE
  /\ sim = Unbound
  /\ G_t = {}
  /\ metrics_data = [thresholds |-> thresholds, density |-> <<>>,
                     clustering |-> <<>>, avg_degree |-> <<>>,
                     num_components |-> <<>>]
  /\ metrics_vs_threshold = None
  /\ proposed_edges = <<>>
  /\ emb_error = FALSE
  /\ heatmap_data = None
  /\ comparison_correlation = None
  /\ umap_layout = None
  /\ raised = FALSE

NextEmbedding ==
  \/ SweepStep
  \/ SweepEnd
  \/ ProposedEdges
  \/ Heatmap
  \/ Node2Vec
  \/ UMAPLayout

SpecEmbedding == InitEmbedding /\ [][NextEmbedding]_vars

\* ------------------------------------------------------------- claims
\* the keys of the node mapping
Defined == Range(nodes_dict)

\* an input edge with an undefined endpoint
Invalid(edge) == edge.source \notin Defined \/ edge.target \notin Defined

Valid(edge) == ~Invalid(edge)

\* the validation section of the report is complete (line 259), or the
\* pipeline has come to its end with that section as it was left
Validated == pc \in {"build", "sentence_embeddings", "done"}

\* C1: once validation is complete, an input edge has an error record
\* if and only if its source or target is not a key of the node mapping;
\* such an edge is never in valid_edges; every edge with both endpoints
\* defined is in valid_edges.  The error records are the invalid edges in
\* input order, valid_edges the valid ones in input order.
C1_ErrorsIffUndefinedEndpoint ==
  Validated =>
    LET bad == {e \in Range(edges_list) : Invalid(e)}
    IN /\ {errors[k].edge : k \in 1..Len(errors)} = bad
       /\ Range(valid_edges) = Range(edges_list) \ bad
       /\ [k \in 1..Len(errors) |-> errors[k].edge] =
            SelectSeq(edges_list, Invalid)
       /\ valid_edges = SelectSeq(edges_list, Valid)

\* C1 witness: a finished validation that met a valid edge, an edge with
\* an undefined source and an edge with an undefined target
C1_Witness ==
  /\ pc = "build"
  /\ valid_edges # <<>>
  /\ \E k \in 1..Len(errors) : errors[k].edge.source \notin Defined
  /\ \E k \in 1..Len(errors) :
       errors[k].edge.source \in Defined /\ errors[k].edge.target \notin Defined

\* the ids that occur as an endpoint of an input edge with both ends defined
EndpointsOfValidEdges ==
  UNION {{edges_list[i].source, edges_list[i].target} :
           i \in {j \in 1..Len(edges_list) : Valid(edges_list[j])}}

\* C2: unreferenced_nodes lists exactly the defined ids that are no
\* endpoint of a valid edge, in strictly ascending order
C2_UnreferencedExact ==
  Validated =>
    /\ Range(unreferenced_nodes) = Defined \ EndpointsOfValidEdges
    /\ \A i, j \in 1..Len(unreferenced_nodes) :
         i < j => Rank(unreferenced_nodes[i]) < Rank(unreferenced_nodes[j])

\* C2 witness: a defined node is unreferenced although it is the source
\* of an edge, because the target of that edge is undefined
C2_Witness ==
  /\ pc = "build"
  /\ \E i \in 1..Len(edges_list) :
       /\ Invalid(edges_list[i])
       /\ edges_list[i].source \in Range(unreferenced_nodes)

\* number of valid input edges with the ordered pair <<s, t>>
ValidOccurrences(s, t) ==
  Cardinality({i \in 1..Len(edges_list) :
                 /\ Valid(edges_list[i])
                 /\ edges_list[i].source = s
                 /\ edges_list[i].target = t})

\* C3: duplicate_directed has an entry for <<s, t>> iff the pair occurs
\* more than once among the valid edges; it has at most one entry per pair
\* and the entry's count is the total number of occurrences
C3_DuplicatesExact ==
  Validated =>
    /\ \A i \in 1..Len(edges_list) :
         LET e == edges_list[i]
         IN ValidOccurrences(e.source, e.target) > 1 =>
              \E k \in 1..Len(duplicate_directed) :
                /\ duplicate_directed[k].source = e.source
                /\ duplicate_directed[k].target = e.target
    /\ \A k \in 1..Len(duplicate_directed) :
         LET d == duplicate_directed[k]
         IN /\ ValidOccurrences(d.source, d.target) > 1
            /\ d.count = ValidOccurrences(d.source, d.target)
            /\ \A j \in 1..Len(duplicate_directed) :
                 (/\ duplicate_directed[j].source = d.source
                  /\ duplicate_directed[j].target = d.target) => j = k

\* C3 witness: a pair that occurs three times
C3_Witness ==
  /\ pc = "build"
  /\ \E k \in 1..Len(duplicate_directed) : duplicate_directed[k].count >= 3

\* the path a -> b -> c -> d on four nodes
IsPath4(a, b, c, d) ==
  /\ Cardinality({a, b, c, d}) = 4
  /\ Range(G_nodes) = {a, b, c, d}
  /\ G_edges = {<<a, b>>, <<b, c>>, <<c, d>>}

\* detect_chains has returned
Returned == pc = "embedding"

\* C4: on the path a -> b -> c -> d, whatever the enumeration order of the
\* four nodes, detect_chains returns the single chain [a, b, c, d] and no
\* cycle
C4_PathYieldsOneChain ==
  Returned =>
    \A a, b, c, d \in Range(G_nodes) :
      IsPath4(a, b, c, d) =>
        /\ linear_chains = << <<a, b, c, d>> >>
        /\ cycles = <<>>

\* the cycle x -> y -> z -> x on three nodes
IsCycle3(x, y, z) ==
  /\ Cardinality({x, y, z}) = 3
  /\ Range(G_nodes) = {x, y, z}
  /\ G_edges = {<<x, y>>, <<y, z>>, <<z, x>>}

\* C5: on the cycle x -> y -> z -> x every run of detect_chains returns no
\* chain and exactly one cycle, with node set {x, y, z}: whichever pending
\* node is popped first, and so the same cycle set on every run
C5_TriangleYieldsOneCycle ==
  Returned =>
    \A x, y, z \in Range(G_nodes) :
      IsCycle3(x, y, z) =>
        /\ linear_chains = <<>>
        /\ Len(cycles) = 1
        /\ Range(cycles[1]) = {x, y, z}
        /\ visited = {x, y, z}

\* C5 witness: a finished run on a 3-cycle whose reported cycle list starts
\* at its last-enumerated node
C5_Witness ==
  /\ Returned
  /\ \E x, y, z \in Range(G_nodes) : IsCycle3(x, y, z)
  /\ Len(cycles) = 1
  /\ cycles[1][1] = G_nodes[3]

\* C6: with an empty node mapping run_full_analysis raises nothing and runs
\* to its end for every edge list; detect_chains and the embedding
\* producers are never entered; the finished report has zero counts, zero
\* metrics, empty centrality maps and no chains or cycles
C6_EmptyGraphZeroes ==
  nodes_dict = <<>> =>
    /\ ~raised
    /\ ~emb_attempted
    /\ pc \in {"validation", "unreferenced", "build", "metrics", "structure",
               "embedding", "done"}
    /\ pc = "done" \/ ENABLED Next
    /\ pc = "done" =>
         LET m == original_graph_metrics
         IN /\ m.num_nodes = 0
            /\ m.num_edges = 0
            /\ m.avg_in_degree = Zero
            /\ m.avg_out_degree = Zero
            /\ m.density = Zero
            /\ m.avg_clustering = Zero
            /\ m.num_self_loops = 0
            /\ DOMAIN m.degree_centrality = {}
            /\ m.betweenness_centrality = [keys |-> {}]
            /\ m.closeness_centrality = [keys |-> {}]
            /\ m.eigenvector_centrality = [keys |-> {}]
            /\ m.avg_shortest_path = Zero
            /\ m.diameter = 0
            /\ structure.chains = <<>>
            /\ structure.cycles = <<>>
            /\ structure.longest_chain_length = 0
            /\ structure.longest_cycle_length = 0
            /\ Len(errors) = Len(edges_list)

\* C6 witness: a finished run on an empty node mapping and a full edge list
C6_Witness ==
  /\ nodes_dict = <<>>
  /\ pc = "done"
  /\ Len(edges_list) = MaxEdges

\* the sweep has built the graph of thresholds[idx - 1]
SweepGraphBuilt == pc \in {"sweep", "proposed", "heatmap"} /\ idx > 1

\* the node pairs joined by construct_embedding_graph at a threshold
FixedGraphEdges(t) ==
  {<<e.u, e.v>> : e \in Range(construct_embedding_graph(sent_embs, t))}

\* C7: at every threshold of the sweep the edge set of the sweep graph is
\* the edge set of construct_embedding_graph(embeddings, t)
C7_SweepEqualsFixedGraph ==
  SweepGraphBuilt => G_t = FixedGraphEdges(thresholds[idx - 1])

Series == {"thresholds", "density", "clustering", "avg_degree",
           "num_components"}

\* C8: when the sweep completes every series has 21 entries; along
\* increasing thresholds density and mean degree (the edge count) never
\* increase and the number of connected components never decreases
C8_SweepMonotone ==
  metrics_vs_threshold # None =>
    LET m == metrics_vs_threshold
    IN /\ \A f \in Series : Len(m[f]) = NumThresholds
       /\ \A k \in 1..(NumThresholds - 1) :
            /\ RatGeq(m.density[k], m.density[k + 1])
            /\ RatGeq(m.avg_degree[k], m.avg_degree[k + 1])
            /\ m.num_components[k] <= m.num_components[k + 1]
       /\ m.num_components[1] <= m.num_components[NumThresholds]

\* C8 witness: a completed sweep over three nodes, one of them with an
\* all-zero vector, in which density falls and the number of components
\* grows
C8_Witness ==
  /\ metrics_vs_threshold # None
  /\ Len(sent_embs) >= 3
  /\ \E i \in 1..Len(sent_embs) : ~np_any(sent_embs[i].emb)
  /\ metrics_vs_threshold.num_components[1] <
       metrics_vs_threshold.num_components[NumThresholds]
  /\ ~RatGeq(metrics_vs_threshold.density[NumThresholds],
             metrics_vs_threshold.density[1])

\* the ids whose embedding is all-zero
ZeroNodes == {sent_embs[i].id : i \in {j \in 1..Len(sent_embs) :
                                         ~np_any(sent_embs[j].emb)}}

Touches(E, S) == \E e \in E : e[1] \in S \/ e[2] \in S

\* C9: similarity is symmetric, and a node with an all-zero vector is
\* joined to no node, neither in the fixed-threshold graph nor in the
\* sweep graph of any threshold greater than 0
C9_ZeroVectorNeverJoined ==
  /\ \A i, j \in 1..Len(sent_embs) :
       similarity_from_distance(norm_diff(sent_embs[i].emb, sent_embs[j].emb))
       = similarity_from_distance(norm_diff(sent_embs[j].emb,
                                            sent_embs[i].emb))
  /\ ~Touches(FixedGraphEdges(fixed_threshold), ZeroNodes)
  /\ (SweepGraphBuilt /\ idx > 2) => ~Touches(G_t, ZeroNodes)

\* the run is past the proposed-edge step, or has ended
PastProposed == pc \in {"heatmap", "node2vec", "umap", "done"}

\* the unordered pairs joined at 0.65 and adjacent in neither direction
ExpectedProposals ==
  {{e[1], e[2]} : e \in {d \in FixedGraphEdges(fixed_threshold) :
                           ~has_edge_undirected(G_edges, d[1], d[2])}}

\* C10: proposed_edges holds exactly the pairs joined at 0.65 that are
\* adjacent in neither direction in the original graph, each once
C10_ProposedExact ==
  PastProposed =>
    /\ {{proposed_edges[k].source, proposed_edges[k].target} :
          k \in 1..Len(proposed_edges)} = ExpectedProposals
    /\ Len(proposed_edges) = Cardinality(ExpectedProposals)


\* the run has ended after a sweep that completed and at least two
\* embedded nodes: the heatmap step was entered
HeatmapDue ==
  /\ pc = "done"
  /\ metrics_vs_threshold # None
  /\ Len(sent_embs) >= 2

\* heatmap_data is a payload of matrix, ids and labels
IsPayload(h) == DOMAIN h = {"matrix", "ids", "labels"}

\* C11: with at least two embedded nodes the run produces a heatmap payload
\* whose ids are a permutation of the embedded node ids, whose labels are
\* the labels of these ids, and whose matrix is symmetric with every
\* diagonal entry exactly 1
C11_HeatmapPayload ==
  HeatmapDue =>
    /\ IsPayload(heatmap_data)
    /\ Len(heatmap_data.ids) = Len(sent_embs)
    /\ Range(heatmap_data.ids) = Range(all_emb_nodes)
    /\ \A k \in 1..Len(heatmap_data.ids) :
         /\ heatmap_data.labels[k] = node_labels(heatmap_data.ids[k])
         /\ heatmap_data.matrix[k][k] = Rat(1, 1)
         /\ \A l \in 1..Len(heatmap_data.ids) :
              heatmap_data.matrix[k][l] = heatmap_data.matrix[l][k]

\* C12: whatever the heatmap step raises is recorded in heatmap_data and
\* goes no further: after a run with at least two embedded nodes
\* heatmap_data is set, the embedding analysis has no error of its own, and
\* the node2vec comparison and the layout step have filled their fields
C12_HeatmapErrorContained ==
  HeatmapDue =>
    /\ heatmap_data # None
    /\ ~emb_error
    /\ comparison_correlation # None
    /\ umap_layout # None

\* the sections of the report written before the embedding analysis
structuralSections == <<validationVars, original_graph_metrics, structure>>

\* C13: once the embedding producer has been called, no step changes the
\* validation, original_graph_metrics and structure sections or lets an
\* exception leave run_full_analysis; a producer that raises ends the run
\* with the failure recorded as the error of embedding_analysis
C13_ProducerFailureContained ==
  [][emb_attempted =>
       /\ UNCHANGED structuralSections
       /\ ~raised'
       /\ (pc' = "done" => emb_error')]_vars

\* C13 witness: a report returned after the producer raised, with a
\* duplicate edge reported and a chain found
C13_Witness ==
  /\ pc = "done"
  /\ emb_attempted
  /\ emb_error
  /\ ~raised
  /\ duplicate_directed # <<>>
  /\ structure.chains # <<>>

\* the run has ended after a sweep that completed: the comparison of the
\* two embedding spaces was due
ComparisonDue ==
  /\ pc = "done"
  /\ metrics_vs_threshold # None
  /\ sent_embs # <<>>

\* the node ids embedded in both spaces
CommonIds == Range(all_emb_nodes) \cap Range(G_nodes)

\* the unordered pairs of common ids whose distance is finite in both
\* spaces
FinitePairs ==
  LET n2v == compute_node2vec_embeddings(G_nodes)
  IN {p \in SUBSET CommonIds :
        /\ Cardinality(p) = 2
        /\ \A a, b \in p :
             a # b => /\ PairDist(sent_embs, a, b) # Inf
                      /\ PairDist(n2v, a, b) # Inf}

Reasons == {"Insufficient Overlap", "Not Enough Data", "Zero Variance", "NaN"}

\* C14: the comparison result is a coefficient or one of the four reasons:
\* "Insufficient Overlap" exactly when fewer than two ids are common,
\* "Not Enough Data" exactly when two are common and fewer than two pairs
\* have a finite distance in both spaces, a coefficient only over at least
\* two such pairs
C14_ComparisonOutcome ==
  ComparisonDue =>
    LET r == comparison_correlation
    IN /\ r # None
       /\ \/ r \in {NotApplicable(x) : x \in Reasons}
          \/ DOMAIN r = {"sign", "square"}
       /\ r = NotApplicable("Insufficient Overlap")
            <=> Cardinality(CommonIds) < 2
       /\ r = NotApplicable("Not Enough Data")
            <=> (Cardinality(CommonIds) >= 2 /\ Cardinality(FinitePairs) < 2)
       /\ DOMAIN r = {"sign", "square"} => Cardinality(FinitePairs) >= 2

\* the node is the last element of a chain already reported
IsChainEnd(node) ==
  \E k \in 1..Len(linear_chains) :
    linear_chains[k][Len(linear_chains[k])] = node

\* the outer loop of detect_chains is at a node that ended an earlier
\* chain, has in-degree other than 1 and has one successor to follow
AtSharedEnd ==
  /\ pc = "chains"
  /\ idx <= Len(G_nodes)
  /\ IsChainEnd(G_nodes[idx])
  /\ IsChainStart(G_edges, G_nodes[idx])
  /\ out_degree(G_edges, G_nodes[idx]) = 1

\* C15: when the outer loop reaches a node that ended an earlier chain and
\* whose in-degree or out-degree is not 1, it starts a chain at that node
\* and follows it to its successor
C15_ChainEndStartsChain ==
  [][AtSharedEnd => (pc' = "follow" /\ chain' = <<G_nodes[idx]>>)]_vars

\* C16: every reported chain has at least two nodes, no node twice, an
\* edge of G from each element to the next, and interior elements of
\* in-degree and out-degree 1
C16_ChainsWellFormed ==
  \A k \in 1..Len(linear_chains) :
    LET c == linear_chains[k]
    IN /\ Len(c) >= 2
       /\ \A i, j \in 1..Len(c) : i # j => c[i] # c[j]
       /\ \A i \in 1..(Len(c) - 1) : <<c[i], c[i + 1]>> \in G_edges
       /\ \A i \in 2..(Len(c) - 1) :
            /\ in_degree(G_edges, c[i]) = 1
            /\ out_degree(G_edges, c[i]) = 1

\* C16 witness: detect_chains has returned a chain with two interior nodes
\* from a graph in which another start, with a self-loop, was dropped as a
\* singleton
C16_Witness ==
  /\ Returned
  /\ \E k \in 1..Len(linear_chains) : Len(linear_chains[k]) >= 4
  /\ \E v \in Range(G_nodes) : <<v, v>> \in G_edges

\* c lists the nodes of a simple directed cycle of G
IsSimpleCycle(c) ==
  /\ Len(c) >= 1
  /\ \A i, j \in 1..Len(c) : i # j => c[i] # c[j]
  /\ \A i \in 1..Len(c) : <<c[i], c[(i % Len(c)) + 1]>> \in G_edges

\* the reported cycles are simple cycles of G with pairwise different
\* node sets, their nodes visited and no longer pending
CyclesConsistent ==
  /\ \A k \in 1..Len(cycles) :
       /\ IsSimpleCycle(cycles[k])
       /\ Range(cycles[k]) \subseteq visited
       /\ Range(cycles[k]) \cap remaining_nodes = {}
  /\ \A k, l \in 1..Len(cycles) :
       k # l => Range(cycles[k]) # Range(cycles[l])
  /\ Returned => remaining_nodes = {}

\* every cycle a step reports contains a node that was pending before the
\* step, that is, a node the chain pass left unvisited
NewCyclesHitPending ==
  \A k \in (Len(cycles) + 1)..Len(cycles') :
    Range(cycles'[k]) \cap remaining_nodes # {}

\* C17: every reported cycle is a simple directed cycle of G through a node
\* the chain pass left unvisited; no two reported cycles have the same
\* node set; the nodes of every reported cycle are visited and not pending,
\* and nothing is pending when detect_chains returns
C17_CyclesWellFormed ==
  /\ []CyclesConsistent
  /\ [][pc = "cycles" => NewCyclesHitPending]_vars

\* C17 witness: detect_chains has returned two cycles that share a node
C17_Witness ==
  /\ Returned
  /\ Len(cycles) >= 2
  /\ Range(cycles[1]) \cap Range(cycles[2]) # {}

\* an iteration of the chain-following loop marks a new node visited or
\* leaves the loop
FollowProgress == pc = "follow" => (visited' # visited \/ pc' = "chains")

\* an iteration of the cycle loop strictly shrinks the pending set
CycleProgress ==
  (pc = "cycles" /\ pc' = "cycles") =>
    (remaining_nodes' \subseteq remaining_nodes
       /\ remaining_nodes' # remaining_nodes)

\* C18: detect_chains returns on every graph, also when cycle searches
\* raise; every iteration of the chain-following loop marks a new node
\* visited or leaves the loop, and every iteration of the cycle loop
\* strictly shrinks the pending set
C18_DetectChainsTerminates ==
  /\ <>Returned
  /\ [][FollowProgress /\ CycleProgress]_vars

\* C18 witness: detect_chains has returned although a cycle search raised:
\* a node of in-degree and out-degree 1 is visited and belongs to no chain
\* and to no cycle
C18_Witness ==
  /\ Returned
  /\ \E v \in visited :
       /\ ~IsChainStart(G_edges, v)
       /\ \A k \in 1..Len(linear_chains) : v \notin Range(linear_chains[k])
       /\ \A k \in 1..Len(cycles) : v \notin Range(cycles[k])

\* the chain pass is over
ChainPassOver ==
  \/ pc = "chains" /\ idx > Len(G_nodes)
  \/ pc = "cycles"
  \/ Returned

\* the number of places of reported chains that hold the node
Occurrences(v) ==
  Cardinality({<<k, i>> \in (1..Len(linear_chains)) \X (1..Len(G_nodes)) :
                 i <= Len(linear_chains[k]) /\ linear_chains[k][i] = v})

\* C20: no node occurs twice in the reported chains, neither within one
\* chain nor in two of them; once the chain pass is over every node it left
\* unvisited, and so every pending node, has in-degree and out-degree 1
C20_ChainsDisjoint ==
  /\ \A v \in Range(G_nodes) : Occurrences(v) <= 1
  /\ (pc = "chains" /\ idx > Len(G_nodes)) =>
       \A v \in Range(G_nodes) \ visited : ~IsChainStart(G_edges, v)
  /\ ChainPassOver =>
       \A v \in remaining_nodes : ~IsChainStart(G_edges, v)

\* C20 witness: the chain pass has reported a chain whose last node has
\* in-degree 2, and has left a node pending
C20_Witness ==
  /\ pc = "cycles"
  /\ remaining_nodes # {}
  /\ \E k \in 1..Len(linear_chains) :
       in_degree(G_edges, linear_chains[k][Len(linear_chains[k])]) >= 2

\* the nodes the chain pass left unvisited: those of in-degree and
\* out-degree 1 that are in no chain
PendingAfterChains ==
  {v \in Range(G_nodes) :
     /\ ~IsChainStart(G_edges, v)
     /\ \A k \in 1..Len(linear_chains) : v \notin Range(linear_chains[k])}

\* the node sets the cycle loop reports when it always pops the pending
\* node of smallest id
RECURSIVE CycleLoopAscending(_, _, _)
CycleLoopAscending(rem, vis, sets) ==
  IF rem = {} THEN sets
  ELSE LET node == CHOOSE x \in rem : \A y \in rem : Rank(x) <= Rank(y)
           found == {Range(c) : c \in {d \in CycleLists(Range(G_nodes), G_edges) :
                                          node \in Range(d)}}
       IN IF node \in vis
            THEN CycleLoopAscending(rem \ {node}, vis, sets)
            ELSE CycleLoopAscending((rem \ {node}) \ UNION found,
                                    vis \cup UNION found, sets \cup found)

\* C19: after the same chain pass on the same graph, the set of node sets
\* of the reported cycles is the same whatever the order of the pops: it
\* is the set reported by the run that pops in ascending order
C19_CyclesOrderIndependent ==
  Returned =>
    {Range(cycles[k]) : k \in 1..Len(cycles)} =
      CycleLoopAscending(PendingAfterChains,
                         Range(G_nodes) \ PendingAfterChains, {})

=============================================================================
